---- MODULE Spec2Model ----
(***************************************************************************)
(* Model of the two analysis scripts of pitfall_or_rtfm:                   *)
(*   scripts/analyze_sample_results.py        (the Ratio Summarizer)       *)
(*   scripts/generate_statistical_analysis.py (the Hypothesis Tester)      *)
(*                                                                         *)
(* Timings are integers (one unit = one tick of the timer), so every mean, *)
(* variance and ratio is an exact rational, kept as a numerator and a      *)
(* denominator and compared by cross-multiplication.  The float values     *)
(* that are not numbers (nan, inf, -inf) are kept as kinds of a value.     *)
(***************************************************************************)
EXTENDS Integers, Sequences, FiniteSets

(***************************************************************************)
(* Bounds of the model.                                                    *)
(***************************************************************************)
\* largest baseline timing of the one-category tables of the Ratio Summarizer
MaxBase == 22
\* largest optimized timing of the one-category tables of the Ratio Summarizer
MaxOpt == 10
\* largest number of categories of the many-category tables
ScenarioCats == 9
\* largest sample of the one-category tables of the Hypothesis Tester
MaxSample == 3
\* longest sample sequence of the one-category tables of the Hypothesis Tester
MaxN == 3
\* largest number of categories of the many-category tables of the tester
TesterCats == 5

VARIABLES
    \* ---- analyze_sample_results.py --------------------------------------
    baseline_results,           \* category -> baseline timing (in order)
    optimized_results,          \* category -> optimized timing
    rs_pc,                      \* position of the script
    rs_i,                       \* the category the for loop reads next
    improvements,               \* list of (benchmark, improvement_ratio)
    significant_improvements,   \* counter of the >= 2x categories
    rows,                       \* the per-category rows printed so far
    summary,                    \* what the summary and the preview printed
    \* ---- generate_statistical_analysis.py -------------------------------
    benchmark_data,             \* category -> [baseline, optimized] samples
    ht_pc,                      \* position of main()
    ht_i,                       \* the category the analysis loop reads next
    results,                    \* category -> result of perform_hypothesis_test
    report,                     \* what generate_statistical_report computed
    key_results                 \* what main() printed under "Key Results"

rs_vars == <<baseline_results, optimized_results, rs_pc, rs_i, improvements,
             significant_improvements, rows, summary>>

ht_vars == <<benchmark_data, ht_pc, ht_i, results, report, key_results>>

vars == <<rs_vars, ht_vars>>

(***************************************************************************)
(* Exact rationals.                                                        *)
(***************************************************************************)
Abs(x) == IF x < 0 THEN -x ELSE x

RECURSIVE GCD(_, _)
GCD(a, b) == IF b = 0 THEN a ELSE GCD(b, a % b)

\* n / d for d # 0, in lowest terms with a positive denominator
Rat(n, d) ==
    LET g == GCD(Abs(n), Abs(d))
        s == IF d < 0 THEN -1 ELSE 1
    IN  [num |-> s * (n \div g), den |-> s * (d \div g)]

RatGE(r, q) == r.num * q.den >= q.num * r.den
RatAdd(r, q) == Rat(r.num * q.den + q.num * r.den, r.den * q.den)

\* the float literals of the cutoffs
Lit_2_0 == [num |-> 2, den |-> 1]
Lit_1_5 == [num |-> 3, den |-> 2]
Lit_1_1 == [num |-> 11, den |-> 10]

(***************************************************************************)
(* analyze_sample_results.py                                               *)
(***************************************************************************)
\* a slip that C1 excludes: the 1.1 cutoff excludes the boundary value
StatusStrictModest(improvement_ratio) ==
    IF RatGE(improvement_ratio, Lit_2_0) THEN "SIGNIFICANT"
    ELSE IF RatGE(improvement_ratio, Lit_1_5) THEN "GOOD"
    ELSE IF ~RatGE(Lit_1_1, improvement_ratio) THEN "MODEST"
    ELSE "REGRESSION"

\* the if / elif cascade of the loop body
Status(improvement_ratio) ==
    IF RatGE(improvement_ratio, Lit_2_0) THEN "SIGNIFICANT"
    ELSE IF RatGE(improvement_ratio, Lit_1_5) THEN "GOOD"
    ELSE IF RatGE(improvement_ratio, Lit_1_1) THEN "MODEST"
    ELSE "REGRESSION"

\* the branch that increments significant_improvements
CountsAsSignificant(improvement_ratio) == RatGE(improvement_ratio, Lit_2_0)

\* a slip that C4 excludes: the preview needs more than 3 significant categories
PreviewAboveThree(count) ==
    IF count > 3 THEN "NULL HYPOTHESIS LIKELY TO BE REJECTED"
    ELSE "INSUFFICIENT EVIDENCE TO REJECT NULL HYPOTHESIS"

\* the preview's decision
Preview(count) ==
    IF count >= 3 THEN "NULL HYPOTHESIS LIKELY TO BE REJECTED"
    ELSE "INSUFFICIENT EVIDENCE TO REJECT NULL HYPOTHESIS"

RECURSIVE SumRatios(_)
SumRatios(s) ==
    IF s = <<>> THEN [num |-> 0, den |-> 1]
    ELSE RatAdd(Head(s).ratio, SumRatios(Tail(s)))

MaxRatio(s) ==
    CHOOSE i \in {s[k] : k \in DOMAIN s} :
        \A k \in DOMAIN s : RatGE(i.ratio, s[k].ratio)

MinRatio(s) ==
    CHOOSE i \in {s[k] : k \in DOMAIN s} :
        \A k \in DOMAIN s : RatGE(s[k].ratio, i.ratio)

NoSummary == [printed |-> FALSE]

\* one timing table of the Ratio Summarizer: category -> (baseline, optimized)
OneCategoryPairs == (0 .. MaxBase) \X (0 .. MaxOpt)
ScenarioPairs == {<<20, 10>>, <<10, 10>>, <<10, 0>>}
RSTables ==
    {<<>>} \cup {<<p>> : p \in OneCategoryPairs}
           \cup UNION {[1 .. n -> ScenarioPairs] : n \in 2 .. ScenarioCats}

RSInit ==
    /\ \E t \in RSTables :
          /\ baseline_results = [k \in DOMAIN t |-> t[k][1]]
          /\ optimized_results = [k \in DOMAIN t |-> t[k][2]]
    /\ rs_pc = "loop"
    /\ rs_i = 1
    /\ improvements = <<>>
    /\ significant_improvements = 0
    /\ rows = <<>>
    /\ summary = NoSummary
    \* the other script is not run
    /\ benchmark_data = <<>>
    /\ ht_pc = "idle"
    /\ ht_i = 1
    /\ results = <<>>
    /\ report = [generated |-> FALSE]
    /\ key_results = [printed |-> FALSE]

\* one pass of "for benchmark in baseline_results"
RSIterate ==
    /\ rs_pc = "loop"
    /\ rs_i <= Len(baseline_results)
    /\ LET baseline_time == baseline_results[rs_i]
           optimized_time == optimized_results[rs_i]
       IN  IF optimized_time = 0
           THEN \* float division by zero raises
                /\ rs_pc' = "ZeroDivisionError"
                /\ UNCHANGED <<rs_i, improvements, significant_improvements, rows>>
           ELSE LET improvement_ratio == Rat(baseline_time, optimized_time)
                IN  /\ improvements' =
                          Append(improvements,
                                 [benchmark |-> rs_i, ratio |-> improvement_ratio])
                    /\ significant_improvements' =
                          IF CountsAsSignificant(improvement_ratio)
                          THEN significant_improvements + 1
                          ELSE significant_improvements
                    /\ rows' = Append(rows, [benchmark |-> rs_i,
                                             ratio |-> improvement_ratio,
                                             status |-> Status(improvement_ratio)])
                    /\ rs_i' = rs_i + 1
                    /\ rs_pc' = "loop"
    /\ UNCHANGED <<baseline_results, optimized_results, summary>>
    /\ UNCHANGED ht_vars

\* everything after the loop: summary statistics and the hypothesis preview
RSSummarize ==
    /\ rs_pc = "loop"
    /\ rs_i > Len(baseline_results)
    /\ IF Len(improvements) = 0
       THEN \* the success rate divides by len(improvements)
            /\ rs_pc' = "ZeroDivisionError"
            /\ summary' = [printed |-> TRUE,
                           total |-> 0,
                           significant |-> significant_improvements]
       ELSE /\ rs_pc' = "done"
            /\ summary' =
                 [printed |-> TRUE,
                  total |-> Len(improvements),
                  significant |-> significant_improvements,
                  success_rate |-> Rat(significant_improvements * 100,
                                       Len(improvements)),
                  avg_improvement |->
                      LET s == SumRatios(improvements)
                      IN  Rat(s.num, s.den * Len(improvements)),
                  max_improvement |-> MaxRatio(improvements).ratio,
                  min_improvement |-> MinRatio(improvements).ratio,
                  preview |-> Preview(significant_improvements)]
    /\ UNCHANGED <<baseline_results, optimized_results, rs_i, improvements,
                   significant_improvements, rows>>
    /\ UNCHANGED ht_vars


RSNext == RSIterate \/ RSSummarize

(***************************************************************************)
(* generate_statistical_analysis.py                                        *)
(*                                                                         *)
(* A float is a record: [kind |-> "nan"], [kind |-> "inf"],                *)
(* [kind |-> "-inf"], a rational [kind |-> "fin", val |-> r], or, for the  *)
(* values that come out of a square root, sign * sqrt(sq) as               *)
(* [kind |-> "fin", sign |-> s, sq |-> r].  numpy's float division never   *)
(* raises: x / 0 is inf, -inf or nan.                                      *)
(***************************************************************************)
NaN == [kind |-> "nan"]
PosInf == [kind |-> "inf"]
NegInf == [kind |-> "-inf"]
Fin(r) == [kind |-> "fin", val |-> r]
Root(s, r) == [kind |-> "fin", sign |-> s, sq |-> r]
Sign(x) == IF x > 0 THEN 1 ELSE IF x < 0 THEN -1 ELSE 0
RatSub(r, q) == Rat(r.num * q.den - q.num * r.den, r.den * q.den)
RatGT(r, q) == r.num * q.den > q.num * r.den

RECURSIVE Sum(_)
Sum(a) == IF a = <<>> THEN 0 ELSE Head(a) + Sum(Tail(a))

RECURSIVE SumSq(_)
SumSq(a) == IF a = <<>> THEN 0 ELSE Head(a) * Head(a) + SumSq(Tail(a))

\* x / 0 of two numpy floats
DivByZero(x) == IF x > 0 THEN PosInf ELSE IF x < 0 THEN NegInf ELSE NaN

\* np.mean(a): nan for an empty array
NpMean(a) == IF Len(a) = 0 THEN NaN ELSE Fin(Rat(Sum(a), Len(a)))

\* np.var(a, ddof=1): nan below two samples (0 / 0)
NpVar(a) ==
    IF Len(a) < 2 THEN NaN
    ELSE Fin(Rat(Len(a) * SumSq(a) - Sum(a) * Sum(a), Len(a) * (Len(a) - 1)))

\* baseline_mean / optimized_mean
ImprovementRatio(baseline_mean, optimized_mean) ==
    IF baseline_mean.kind = "nan" \/ optimized_mean.kind = "nan" THEN NaN
    ELSE IF optimized_mean.val.num = 0 THEN DivByZero(baseline_mean.val.num)
    ELSE Fin(Rat(baseline_mean.val.num * optimized_mean.val.den,
                 baseline_mean.val.den * optimized_mean.val.num))

\* np.sqrt(((n1-1)*var1 + (n2-1)*var2) / (n1+n2-2))
PooledStd(baseline_times, optimized_times) ==
    LET n1 == Len(baseline_times)
        n2 == Len(optimized_times)
        v1 == NpVar(baseline_times)
        v2 == NpVar(optimized_times)
    IN  IF v1.kind = "nan" \/ v2.kind = "nan" THEN NaN
        ELSE LET s == RatAdd(Rat((n1 - 1) * v1.val.num, v1.val.den),
                             Rat((n2 - 1) * v2.val.num, v2.val.den))
                 q == Rat(s.num, s.den * (n1 + n2 - 2))
             IN  Root(Sign(q.num), q)

\* (baseline_mean - optimized_mean) / pooled_std
calculate_effect_size(baseline_mean, optimized_mean, pooled_std) ==
    IF baseline_mean.kind = "nan" \/ optimized_mean.kind = "nan"
       \/ pooled_std.kind = "nan"
    THEN NaN
    ELSE LET diff == RatSub(baseline_mean.val, optimized_mean.val)
         IN  IF pooled_std.sq.num = 0 THEN DivByZero(diff.num)
             ELSE Root(Sign(diff.num),
                       Rat(diff.num * diff.num * pooled_std.sq.den,
                           diff.den * diff.den * pooled_std.sq.num))

\* the sum of squared deviations from the mean of a non-empty array
SumSqDev(a) == Rat(Len(a) * SumSq(a) - Sum(a) * Sum(a), Len(a))

\* stats.ttest_ind(a, b), equal variances.  single_var_zero: whether the
\* installed scipy takes the variance of a single observation as 0 (later
\* releases) or as nan (earlier ones).
TTestInd(a, b, single_var_zero) ==
    LET n1 == Len(a)
        n2 == Len(b)
        df == n1 + n2 - 2
        nans == [t_statistic |-> NaN, p_value |-> NaN]
    IN  IF n1 = 0 \/ n2 = 0 \/ df = 0 THEN nans
        ELSE IF (n1 = 1 \/ n2 = 1) /\ ~single_var_zero THEN nans
        ELSE LET diff == RatSub(Rat(Sum(a), n1), Rat(Sum(b), n2))
                 ss == RatAdd(SumSqDev(a), SumSqDev(b))
                 \* svar * (1/n1 + 1/n2)
                 denom_sq == Rat(ss.num * (n1 + n2), ss.den * df * n1 * n2)
                 t == IF denom_sq.num = 0 THEN DivByZero(diff.num)
                      ELSE Root(Sign(diff.num),
                                Rat(diff.num * diff.num * denom_sq.den,
                                    diff.den * diff.den * denom_sq.num))
             IN  [t_statistic |-> t,
                  \* 2 * sf(|t|, df), kept as the t and df it is computed from
                  p_value |-> IF t.kind = "nan" THEN NaN
                              ELSE [kind |-> "fin", t |-> t, df |-> df]]

\* what stats.ttest_ind can return on the builds of scipy
StatsTTestInd(a, b) == {TTestInd(a, b, TRUE), TTestInd(a, b, FALSE)}

\* the square of the two-sided 5% point of Student's t with df degrees of
\* freedom: 2 * sf(|t|, df) < 0.05 exactly when t * t exceeds it
CritSq(df) ==
    CASE df = 1 -> [num |-> 1614476, den |-> 10000]
      [] df = 2 -> [num |-> 722, den |-> 39]
      [] df = 3 -> [num |-> 101279, den |-> 10000]
      [] df = 4 -> [num |-> 77086, den |-> 10000]
      [] df = 5 -> [num |-> 66078, den |-> 10000]
      [] df = 6 -> [num |-> 59873, den |-> 10000]
      [] df = 7 -> [num |-> 55914, den |-> 10000]
      [] df = 8 -> [num |-> 53176, den |-> 10000]
      [] df = 9 -> [num |-> 51173, den |-> 10000]
      [] df = 10 -> [num |-> 49646, den |-> 10000]
      [] df = 11 -> [num |-> 48443, den |-> 10000]
      [] df = 12 -> [num |-> 47472, den |-> 10000]
      [] df = 13 -> [num |-> 46671, den |-> 10000]
      [] df = 14 -> [num |-> 46001, den |-> 10000]
      [] df = 15 -> [num |-> 45430, den |-> 10000]
      [] df = 16 -> [num |-> 44939, den |-> 10000]
      [] df = 17 -> [num |-> 44513, den |-> 10000]
      [] df = 18 -> [num |-> 44138, den |-> 10000]

\* p_value < alpha, alpha = 0.05 (main never passes another alpha);
\* a comparison with nan is false, and p is 0 when t is infinite
PValueLTAlpha(p_value) ==
    /\ p_value.kind = "fin"
    /\ \/ p_value.t.kind \in {"inf", "-inf"}
       \/ /\ p_value.t.kind = "fin"
          /\ RatGT(p_value.t.sq, CritSq(p_value.df))

\* a slip that C10 excludes: the effect-size gate looks at the magnitude of d
CohensDMagnitudeGT08(cohens_d) ==
    \/ cohens_d.kind \in {"inf", "-inf"}
    \/ /\ cohens_d.kind = "fin"
       /\ 25 * cohens_d.sq.num > 16 * cohens_d.sq.den

\* cohens_d > 0.8: d > 0 and d * d > 16/25; a comparison with nan is false
CohensDGT08(cohens_d) ==
    \/ cohens_d.kind = "inf"
    \/ /\ cohens_d.kind = "fin"
       /\ cohens_d.sign = 1
       /\ 25 * cohens_d.sq.num > 16 * cohens_d.sq.den

\* a slip that C2 excludes: plain p < 0.05 is taken as sufficient
IsSignificantPOnly(p_value, cohens_d) == PValueLTAlpha(p_value)

\* is_significant = p_value < alpha and cohens_d > 0.8
IsSignificant(p_value, cohens_d) ==
    PValueLTAlpha(p_value) /\ CohensDGT08(cohens_d)

\* stats.sem(a): the standard error of the mean
StatsSem(a) ==
    LET v == NpVar(a)
    IN  IF v.kind = "nan" THEN NaN
        ELSE LET q == Rat(v.val.num, v.val.den * Len(a)) IN Root(Sign(q.num), q)

\* stats.t.interval(0.95, df, loc, scale), kept as its arguments
TInterval(df, loc, scale) == [level |-> 95, df |-> df, loc |-> loc, scale |-> scale]

\* perform_hypothesis_test, given what stats.ttest_ind returned
perform_hypothesis_test(baseline_times, optimized_times, ttest) ==
    LET baseline_mean == NpMean(baseline_times)
        optimized_mean == NpMean(optimized_times)
        pooled_std == PooledStd(baseline_times, optimized_times)
        cohens_d == calculate_effect_size(baseline_mean, optimized_mean, pooled_std)
    IN  [baseline_mean |-> baseline_mean,
         optimized_mean |-> optimized_mean,
         improvement_ratio |-> ImprovementRatio(baseline_mean, optimized_mean),
         p_value |-> ttest.p_value,
         cohens_d |-> cohens_d,
         baseline_ci |-> TInterval(Len(baseline_times) - 1, baseline_mean,
                                   StatsSem(baseline_times)),
         optimized_ci |-> TInterval(Len(optimized_times) - 1, optimized_mean,
                                    StatsSem(optimized_times)),
         is_significant |-> IsSignificant(ttest.p_value, cohens_d),
         t_statistic |-> ttest.t_statistic]

\* the counting loop of generate_statistical_report
RECURSIVE ReportSignificantCount(_)
ReportSignificantCount(rs) ==
    IF rs = <<>> THEN 0
    ELSE (IF Head(rs).is_significant THEN 1 ELSE 0)
         + ReportSignificantCount(Tail(rs))

\* sum(1 for stats in results.values() if stats['is_significant']) of main
MainSignificantCount(rs) ==
    Cardinality({k \in DOMAIN rs : rs[k].is_significant})

\* a slip that C3 excludes: the report needs more than 3 significant categories
ReportDecisionAboveThree(significant_count) ==
    IF significant_count > 3 THEN "REJECT NULL HYPOTHESIS"
    ELSE "FAIL TO REJECT NULL HYPOTHESIS"

\* the decision section of the report
ReportDecision(significant_count) ==
    IF significant_count >= 3 THEN "REJECT NULL HYPOTHESIS"
    ELSE "FAIL TO REJECT NULL HYPOTHESIS"

\* the evidence lines under the decision
ReportEvidence(significant_count) ==
    IF significant_count >= 3
    THEN {"benchmarks show statistically significant improvements",
          "All significant improvements exceed 2x performance gain",
          "Large effect sizes (Cohen's d > 0.8) indicate practical significance",
          "Controlled environment eliminates confounding variables"}
    ELSE {"Only some benchmarks show statistically significant improvements",
          "Insufficient evidence to conclusively disprove the pitfall theory",
          "Additional benchmark categories needed for stronger evidence"}

\* the last line main prints
MainDecision(significant_count) ==
    IF significant_count >= 3 THEN "NULL HYPOTHESIS REJECTED"
    ELSE "Need more categories for conclusive evidence"

NoReport == [generated |-> FALSE]
NoKeyResults == [printed |-> FALSE]

\* the sample sequences of one group
Samples == UNION {[1 .. n -> 1 .. MaxSample] : n \in 0 .. MaxN}
OneCategorySeries == {[baseline |-> b, optimized |-> o] : b, o \in Samples}
ScenarioSeries ==
    {[baseline |-> <<6, 6>>, optimized |-> <<1, 2>>],
     [baseline |-> <<6, 6>>, optimized |-> <<3, 4>>],
     [baseline |-> <<2, 3>>, optimized |-> <<2, 3>>],
     [baseline |-> <<1, 2>>, optimized |-> <<5, 6>>],
     [baseline |-> <<1, 1>>, optimized |-> <<1, 1>>]}
HTTables ==
    {<<>>} \cup {<<c>> : c \in OneCategorySeries}
           \cup UNION {[1 .. n -> ScenarioSeries] : n \in 2 .. TesterCats}

HTInit ==
    /\ benchmark_data \in HTTables
    /\ ht_pc = "analyze"
    /\ ht_i = 1
    /\ results = <<>>
    /\ report = NoReport
    /\ key_results = NoKeyResults
    \* the other script is not run
    /\ baseline_results = <<>>
    /\ optimized_results = <<>>
    /\ rs_pc = "idle"
    /\ rs_i = 1
    /\ improvements = <<>>
    /\ significant_improvements = 0
    /\ rows = <<>>
    /\ summary = NoSummary

\* one pass of the loop of analyze_memory_workload_results
HTAnalyze ==
    /\ ht_pc = "analyze"
    /\ ht_i <= Len(benchmark_data)
    /\ LET baseline_times == benchmark_data[ht_i].baseline
           optimized_times == benchmark_data[ht_i].optimized
       IN  \E ttest \in StatsTTestInd(baseline_times, optimized_times) :
              results' = Append(results,
                                perform_hypothesis_test(baseline_times,
                                                        optimized_times, ttest))
    /\ ht_i' = ht_i + 1
    /\ UNCHANGED <<benchmark_data, ht_pc, report, key_results>>
    /\ UNCHANGED rs_vars

\* generate_performance_charts: the results go to the chart file, nothing of
\* the analysis changes
HTCharts ==
    /\ ht_pc = "analyze"
    /\ ht_i > Len(benchmark_data)
    /\ ht_pc' = "report"
    /\ UNCHANGED <<benchmark_data, ht_i, results, report, key_results>>
    /\ UNCHANGED rs_vars

\* generate_statistical_report.  The averages of the ratios and of the effect
\* sizes are rendered text only and are left out; the counts, the success
\* rate and the decision are kept.
HTReport ==
    /\ ht_pc = "report"
    /\ LET significant_count == ReportSignificantCount(results)
           total_count == Len(results)
       IN  IF total_count = 0
           THEN \* the success rate divides by total_count
                /\ ht_pc' = "ZeroDivisionError"
                /\ UNCHANGED report
           ELSE /\ ht_pc' = "save"
                /\ report' = [generated |-> TRUE,
                              total_count |-> total_count,
                              significant_count |-> significant_count,
                              success_rate |-> Rat(significant_count * 100,
                                                   total_count),
                              decision |-> ReportDecision(significant_count),
                              evidence |-> ReportEvidence(significant_count)]
    /\ UNCHANGED <<benchmark_data, ht_i, results, key_results>>
    /\ UNCHANGED rs_vars

\* the rest of main: the report is written and the key results are printed
HTKeyResults ==
    /\ ht_pc = "save"
    /\ LET significant_count == MainSignificantCount(results)
           total_count == Len(results)
       IN  key_results' = [printed |-> TRUE,
                           total_count |-> total_count,
                           significant_count |-> significant_count,
                           success_rate |-> Rat(significant_count * 100,
                                                total_count),
                           decision |-> MainDecision(significant_count)]
    /\ ht_pc' = "done"
    /\ UNCHANGED <<benchmark_data, ht_i, results, report>>
    /\ UNCHANGED rs_vars

HTNext == HTAnalyze \/ HTCharts \/ HTReport \/ HTKeyResults

\* a run of analyze_sample_results.py
SpecRS == RSInit /\ [][RSNext]_vars

\* a run of generate_statistical_analysis.py
SpecHT == HTInit /\ [][HTNext]_vars

(***************************************************************************)
(* The Ratio Summarizer (checked under SpecRS).                            *)
(***************************************************************************)
Bands == {"SIGNIFICANT", "GOOD", "MODEST", "REGRESSION"}

\* C1: every printed row carries ratio = baseline / optimized and exactly the
\* band of that ratio: >= 2.0 significant, [1.5, 2.0) good, [1.1, 1.5) modest,
\* < 1.1 regression; the four intervals are disjoint and cover every ratio,
\* and each boundary value lies in the higher band.
C1_FourBandsByCutoff ==
    \A k \in DOMAIN rows :
        LET b == baseline_results[rows[k].benchmark]
            o == optimized_results[rows[k].benchmark]
            s == rows[k].status
        IN  /\ o > 0
            /\ rows[k].ratio.num * o = b * rows[k].ratio.den
            /\ s \in Bands
            /\ (s = "SIGNIFICANT") = (b >= 2 * o)
            /\ (s = "GOOD") = (2 * b >= 3 * o /\ b < 2 * o)
            /\ (s = "MODEST") = (10 * b >= 11 * o /\ 2 * b < 3 * o)
            /\ (s = "REGRESSION") = (10 * b < 11 * o)

\* a row whose ratio is exactly the boundary 1.1 was printed as MODEST
C1_Witness ==
    \E k \in DOMAIN rows :
        /\ 10 * baseline_results[k] = 11 * optimized_results[k]
        /\ rows[k].status = "MODEST"

\* C4: once every category is processed the significant count is the number
\* of categories with ratio >= 2.0, and the preview declares the claim
\* supported exactly when that count is >= 3, whatever the number of
\* categories (9 categories with a count of 2: insufficient evidence).
C4_PreviewByFixedThreshold ==
    rs_pc = "done" =>
        LET n == Cardinality({k \in DOMAIN baseline_results :
                                 baseline_results[k] >= 2 * optimized_results[k]})
        IN  /\ significant_improvements = n
            /\ summary.significant = n
            /\ summary.total = Len(baseline_results)
            /\ (summary.preview = "NULL HYPOTHESIS LIKELY TO BE REJECTED") = (n >= 3)
            /\ (summary.preview = "INSUFFICIENT EVIDENCE TO REJECT NULL HYPOTHESIS")
                  = (n < 3)

\* 9 categories, 2 of them significant, and the preview says insufficient
C4_Witness ==
    /\ rs_pc = "done"
    /\ Len(baseline_results) = 9
    /\ significant_improvements = 2
    /\ summary.preview = "INSUFFICIENT EVIDENCE TO REJECT NULL HYPOTHESIS"

\* C5: when a category has an optimized value of zero, the run has failed
\* with the division error without any per-category result (ratio, band,
\* printed row) having been produced.
C5_NoPartialResultsOnZero ==
    (rs_pc = "ZeroDivisionError"
       /\ \E k \in DOMAIN optimized_results : optimized_results[k] = 0)
    => (rows = <<>> /\ improvements = <<>>)

(***************************************************************************)
(* The Hypothesis Tester (checked under SpecHT).                           *)
(***************************************************************************)
SignificantCategories == {k \in DOMAIN results : results[k].is_significant}

C6_NoResultBelowTwoSamples ==
    \A k \in DOMAIN results :
        /\ Len(benchmark_data[k].baseline) >= 2
        /\ Len(benchmark_data[k].optimized) >= 2

ZeroVariance(a) == \A i, j \in DOMAIN a : a[i] = a[j]

\* C7: for a category whose two groups both have zero variance no result
\* with a nan p_value or a nan cohens_d is returned.
C7_ZeroVarianceNotPropagated ==
    \A k \in DOMAIN results :
        (/\ Len(benchmark_data[k].baseline) >= 2
         /\ Len(benchmark_data[k].optimized) >= 2
         /\ ZeroVariance(benchmark_data[k].baseline)
         /\ ZeroVariance(benchmark_data[k].optimized))
        => (results[k].p_value.kind # "nan" /\ results[k].cohens_d.kind # "nan")

\* C8: for two groups (of at least 2 samples each) with identical means the
\* cohens_d of the result is 0, whatever the variances.
C8_IdenticalMeansGiveZeroD ==
    \A k \in DOMAIN results :
        LET b == benchmark_data[k].baseline
            o == benchmark_data[k].optimized
        IN  (Len(b) >= 2 /\ Len(o) >= 2 /\ Sum(b) * Len(o) = Sum(o) * Len(b))
            => (/\ results[k].cohens_d.kind = "fin"
                /\ results[k].cohens_d.sign = 0
                /\ results[k].cohens_d.sq.num = 0)

ExceedsTwo(ratio) ==
    \/ ratio.kind = "inf"
    \/ ratio.kind = "fin" /\ ratio.val.num > 2 * ratio.val.den

\* C9: when the report decides REJECT NULL HYPOTHESIS, with its evidence line
\* "All significant improvements exceed 2x performance gain", every category
\* counted as significant has an improvement_ratio greater than 2.0.
C9_RejectEvidenceExceedsTwo ==
    (report.generated /\ report.decision = "REJECT NULL HYPOTHESIS")
    => (/\ "All significant improvements exceed 2x performance gain"
              \in report.evidence
        /\ \A k \in SignificantCategories :
              ExceedsTwo(results[k].improvement_ratio))

\* C10: a significant category has baseline_mean > optimized_mean and an
\* improvement_ratio above 1: a category whose optimized group is slower is
\* never significant, whatever its p_value and the magnitude of its d.
C10_SignificanceOneDirectional ==
    \A k \in SignificantCategories :
        LET r == results[k]
        IN  /\ r.baseline_mean.kind = "fin"
            /\ r.optimized_mean.kind = "fin"
            /\ RatGT(r.baseline_mean.val, r.optimized_mean.val)
            /\ Sum(benchmark_data[k].baseline) * Len(benchmark_data[k].optimized)
                  > Sum(benchmark_data[k].optimized) * Len(benchmark_data[k].baseline)
            /\ \/ r.improvement_ratio.kind = "inf"
               \/ /\ r.improvement_ratio.kind = "fin"
                  /\ r.improvement_ratio.val.num > r.improvement_ratio.val.den

\* a slower optimized group of positive samples with p < 0.05 and a large
\* negative d was analysed and is not significant
C10_Witness ==
    \E k \in DOMAIN results :
        /\ \A i \in DOMAIN benchmark_data[k].baseline :
              benchmark_data[k].baseline[i] > 0
        /\ results[k].baseline_mean.kind = "fin"
        /\ results[k].optimized_mean.kind = "fin"
        /\ RatGT(results[k].optimized_mean.val, results[k].baseline_mean.val)
        /\ PValueLTAlpha(results[k].p_value)
        /\ CohensDMagnitudeGT08(results[k].cohens_d)
        /\ results[k].cohens_d.kind = "fin"
        /\ ~results[k].is_significant

====
